---- MODULE Spec2Model ----
(***************************************************************************)
(* State-machine model of HydrusFilesService                               *)
(* (src/src/app/hydrus-files.service.ts): the identifier-keyed metadata    *)
(* cache `allFiles`, the batched, chunked fetch behind getFileMetadata,    *)
(* the uncached identifier- and hash-keyed lookups and the pass-through    *)
(* mutation calls.                                                         *)
(*                                                                         *)
(* Every lookup returns a cold RxJS Observable: the method body runs at    *)
(* the call, the backend request is issued when the Observable is          *)
(* subscribed, and the operators of its pipe (map, tap) run when the       *)
(* response is delivered to a live subscription.  One call slot therefore  *)
(* moves idle -> created -> waiting -> done | failed | abandoned.          *)
(***************************************************************************)
EXTENDS Integers, Sequences, FiniteSets, TLC

\* ------------------------------------------------------------------ bounds

\* File identifiers known to the backend are 1..NumIds.
NumIds == 3

\* Longest identifier / hash list a caller passes.
MaxLen == 2

\* Chunk sizes 1..ScaledChunk are explored next to the shipped one, so that
\* lists of at most MaxLen identifiers are split into several chunks.
ScaledChunk == 1

\* Most entries of file_services.current, and of ratings, on a raw record
\* given to the normalizer.
MaxServices == 2

\* const QUERY_CHUNK_SIZE = 256;
QUERY_CHUNK_SIZE == 256

Ids == 1..NumIds

\* The values QUERY_CHUNK_SIZE takes in the model: the shipped constant and
\* the scaled-down ones.
ChunkSizes == (1..ScaledChunk) \cup {QUERY_CHUNK_SIZE}

\* MIME strings the backend reports; a file's content may differ from one
\* response to the next (the backend is mutable), which the model shows as
\* a different mime.
Mimes == {"image/jpeg", "application/x-totally-unknown"}

\* Call slots: the Observables that can be alive at the same time.
CallIds == {1, 2}

VARIABLES
  allFiles,    \* private allFiles: Map<number, HydrusBasicFile>
  chunkSize,   \* the value of QUERY_CHUNK_SIZE in this run
  calls,       \* per call slot: the Observable a lookup returned
  ret,         \* history: what became of each identifier a getFileMetadata
               \* result has held ("never" returned; "kept": returned by a
               \* call with no clearFilesCache since it was made; "stale":
               \* returned, and the cache was cleared since that call was made)
  normalizer   \* the raw record (or filetype) under normalization and what
               \* the normalizer made of it

vars == <<allFiles, chunkSize, calls, ret, normalizer>>

\* ------------------------------------------------------- sequences, maps

Range(s) == {s[i] : i \in 1..Len(s)}

\* Sequences over S without repetition, of length lo..hi.
UniqueSeqs(S, lo, hi) ==
  {s \in UNION {[1..n -> S] : n \in lo..hi} :
     \A i, j \in 1..Len(s) : i # j => s[i] # s[j]}

\* Array.prototype.flat (one level)
RECURSIVE Flat(_)
Flat(ss) == IF ss = <<>> THEN <<>> ELSE Head(ss) \o Flat(Tail(ss))

\* Array.prototype.indexOf: 0-based index of the first occurrence, or -1.
RECURSIVE IndexFrom(_, _, _)
IndexFrom(s, x, i) ==
  IF i > Len(s) THEN -1
  ELSE IF s[i] = x THEN i - 1
  ELSE IndexFrom(s, x, i + 1)

indexOf(s, x) == IndexFrom(s, x, 1)

\* The empty Map.
EmptyMap == [k \in {} |-> 0]

\* Map.prototype.set
MapSet(m, k, v) ==
  [x \in (DOMAIN m) \cup {k} |-> IF x = k THEN v ELSE m[x]]

\* ------------------------------------------------------------- normalizer

\* The content hash of file i (hex string in the program; a tagged pair here).
HashOf(i) == <<"sha256", i>>

Hashes == {HashOf(i) : i \in Ids}

\* HydrusBasicFileFromAPI as the backend reports file i with mime m.  The
\* fields size, ext, width, height, duration, has_audio, num_frames and
\* num_words are copied through by the spread and are left out.
RawBasic(i, m) == [file_id |-> i, hash |-> HashOf(i), mime |-> m]

\* filetypeFromMime (hydrus-file-mimes): a known MIME maps to its filetype,
\* any other to the sentinel APPLICATION_UNKNOWN.
filetypeFromMime(mime) ==
  IF mime = "image/jpeg" THEN "IMAGE_JPEG" ELSE "APPLICATION_UNKNOWN"

\* mime_string_lookup (hydrus-file-mimes): the human-readable type string.
mime_string_lookup(filetype) ==
  IF filetype = "IMAGE_JPEG" THEN "jpeg" ELSE "unknown filetype"

\* hasThumbnail (hydrus-file-mimes)
hasThumbnail(filetype) == filetype = "IMAGE_JPEG"

\* HydrusApiService.getFileURLFromHash / getThumbnailURLFromHash
getFileURLFromHash(hash) == <<"get_files/file", hash>>

getThumbnailURLFromHash(hash) == <<"get_files/thumbnail", hash>>

ImageTypes ==
  {"IMAGE_JPEG", "IMAGE_PNG", "IMAGE_APNG", "IMAGE_GIF", "IMAGE_BMP",
   "IMAGE_WEBP", "IMAGE_SVG", "IMAGE_HEIF", "IMAGE_HEIF_SEQUENCE",
   "IMAGE_HEIC", "IMAGE_HEIC_SEQUENCE", "IMAGE_AVIF", "IMAGE_AVIF_SEQUENCE"}

VideoTypes == {"VIDEO_MP4", "VIDEO_WEBM", "VIDEO_MKV", "VIDEO_MOV"}

AudioTypes == {"AUDIO_MP3", "AUDIO_OGG", "AUDIO_FLAC", "AUDIO_WAVE"}

FlashTypes == {"APPLICATION_FLASH", "VIDEO_FLV"}

\* Mutation: the final return of the default category is missing.
getFileCategoryNoDefault(type) ==
  IF type \in ImageTypes THEN "Image"
  ELSE IF type \in VideoTypes THEN "Video"
  ELSE IF type \in AudioTypes THEN "Audio"
  ELSE IF type \in FlashTypes THEN "Flash"
  ELSE "undefined"

getFileCategory(type) ==
  IF type \in ImageTypes THEN "Image"
  ELSE IF type \in VideoTypes THEN "Video"
  ELSE IF type \in AudioTypes THEN "Audio"
  ELSE IF type \in FlashTypes THEN "Flash"
  ELSE "Unsupported"

\* Object spread {...a, ...b}: b's fields win.
Spread(a, b) ==
  [k \in (DOMAIN a) \cup (DOMAIN b) |-> IF k \in DOMAIN b THEN b[k] ELSE a[k]]

basicFileExtraInfo(file) ==
  LET filetype == filetypeFromMime(file.mime)
  IN  [file_url |-> getFileURLFromHash(file.hash),
       thumbnail_url |-> getThumbnailURLFromHash(file.hash),
       file_type |-> filetype,
       file_category |-> getFileCategory(filetype),
       file_type_string |->
         IF filetype = "APPLICATION_UNKNOWN"
         THEN file.mime ELSE mime_string_lookup(filetype),
       has_thumbnail |-> hasThumbnail(filetype)]

processBasicFileFromAPI(file) == Spread(file, basicFileExtraInfo(file))

\* ------------------------------------------------------------------ cache

\* Mutation: clear() leaves the entries in place.
clearedCacheKept == allFiles

\* The cache after this.allFiles.clear().
clearedCache == EmptyMap

getFilesCacheSize == Cardinality(DOMAIN allFiles)

\* Mutation: the records are stored under their position in the list.
addFilesAndTagsByPosition(cache, files) ==
  [x \in (DOMAIN cache) \cup (1..Len(files)) |->
     IF x \in 1..Len(files) THEN files[x] ELSE cache[x]]

\* files.forEach(file => this.allFiles.set(file.file_id, file))
RECURSIVE addFilesAndTags(_, _)
addFilesAndTags(cache, files) ==
  IF files = <<>> THEN cache
  ELSE addFilesAndTags(MapSet(cache, Head(files).file_id, Head(files)),
                       Tail(files))

\* Mutation: the loop stops after the first slice.
chunkFirstOnly(array, size) ==
  IF array = <<>> THEN <<>>
  ELSE <<SubSeq(array, 1, IF Len(array) <= size THEN Len(array) ELSE size)>>

\* chunk(array, size): consecutive slices of `size` elements.
RECURSIVE chunk(_, _)
chunk(array, size) ==
  IF array = <<>> THEN <<>>
  ELSE IF Len(array) <= size THEN <<array>>
  ELSE <<SubSeq(array, 1, size)>> \o chunk(SubSeq(array, size + 1, Len(array)), size)

\* The loop of getFileMetadata: the cached records of fileIds, in order.
RECURSIVE existingFiles(_, _)
existingFiles(cache, fileIds) ==
  IF fileIds = <<>> THEN <<>>
  ELSE (IF Head(fileIds) \in DOMAIN cache
        THEN <<cache[Head(fileIds)]>> ELSE <<>>)
       \o existingFiles(cache, Tail(fileIds))

\* The loop of getFileMetadata: the identifiers of fileIds not cached.
RECURSIVE filesToGet(_, _)
filesToGet(cache, fileIds) ==
  IF fileIds = <<>> THEN <<>>
  ELSE (IF Head(fileIds) \in DOMAIN cache
        THEN <<>> ELSE <<Head(fileIds)>>)
       \o filesToGet(cache, Tail(fileIds))

\* The comparator of the final sort.
compareFiles(a, b, fileIds) ==
  indexOf(fileIds, a.file_id) - indexOf(fileIds, b.file_id)

\* Array.prototype.sort is stable: x goes behind every element that does
\* not compare greater than it.
RECURSIVE InsertFile(_, _, _)
InsertFile(sorted, x, fileIds) ==
  IF sorted = <<>> THEN <<x>>
  ELSE IF compareFiles(Head(sorted), x, fileIds) <= 0
       THEN <<Head(sorted)>> \o InsertFile(Tail(sorted), x, fileIds)
       ELSE <<x>> \o sorted

RECURSIVE SortInto(_, _, _)
SortInto(sorted, files, fileIds) ==
  IF files = <<>> THEN sorted
  ELSE SortInto(InsertFile(sorted, Head(files), fileIds), Tail(files), fileIds)

\* Mutation: the sort left out.
sortFilesSkipped(files, fileIds) == files

\* files.sort((a, b) => fileIds.indexOf(a.file_id) - fileIds.indexOf(b.file_id))
sortFiles(files, fileIds) == SortInto(<<>>, files, fileIds)

\* Mutation: a placeholder is made up for every identifier without a record.
fileMetadataResultPadded(s1, s2, fileIds) ==
  [k \in 1..Len(fileIds) |->
     IF \E j \in 1..Len(s1 \o s2) : (s1 \o s2)[j].file_id = fileIds[k]
     THEN (s1 \o s2)[CHOOSE j \in 1..Len(s1 \o s2) : (s1 \o s2)[j].file_id = fileIds[k]]
     ELSE processBasicFileFromAPI(RawBasic(fileIds[k], "application/x-totally-unknown"))]

\* Mutation: the records sorted by identifier, not by position in fileIds.
fileMetadataResultById(s1, s2, fileIds) ==
  sortFiles(s1 \o s2, [k \in 1..NumIds |-> k])

\* map(([s1, s2]) => [...s1, ...s2]), then the sort.
fileMetadataResult(s1, s2, fileIds) == sortFiles(s1 \o s2, fileIds)

\* ---------------------------------------------------- full-record normalizer

\* isNumericalRatingService / isLikeRatingService / isIncDecRatingService
\* (hydrus-services): decided by the declared type of the service alone.
isNumericalRatingService(service) ==
  "type" \in DOMAIN service /\ service.type = "LOCAL_RATING_NUMERICAL"

isLikeRatingService(service) ==
  "type" \in DOMAIN service /\ service.type = "LOCAL_RATING_LIKE"

isIncDecRatingService(service) ==
  "type" \in DOMAIN service /\ service.type = "LOCAL_RATING_INCDEC"

\* One entry of Object.entries(ratings): <<service_key, value>>.  services is
\* the directory, a function from service keys to descriptors; null is the
\* record [null |-> TRUE].
Null == [null |-> TRUE]

\* Mutation: an entry whose value is null gives no record.
ratingOfTruthy(entry, services) ==
  LET service == Spread([service_key |-> entry[1]],
                        IF entry[1] \in DOMAIN services
                        THEN services[entry[1]] ELSE EmptyMap)
  IN  IF entry[2] = "null" THEN Null
      ELSE IF isNumericalRatingService(service) \/ isLikeRatingService(service)
              \/ isIncDecRatingService(service)
           THEN Spread(service, [value |-> entry[2]])
      ELSE Null

ratingOf(entry, services) ==
  LET service_key == entry[1]
      value == entry[2]
      service == Spread([service_key |-> service_key],
                        IF service_key \in DOMAIN services
                        THEN services[service_key] ELSE EmptyMap)
  IN  IF isNumericalRatingService(service) THEN Spread(service, [value |-> value])
      ELSE IF isLikeRatingService(service) THEN Spread(service, [value |-> value])
      ELSE IF isIncDecRatingService(service) THEN Spread(service, [value |-> value])
      ELSE Null

\* ratings: the entries of the raw map in its iteration order.
RECURSIVE generateRatingsArray(_, _)
generateRatingsArray(ratings, services) ==
  IF ratings = <<>> THEN <<>>
  ELSE <<ratingOf(Head(ratings), services)>>
       \o generateRatingsArray(Tail(ratings), services)

\* Object.values(current).filter(x => !!x.time_imported).map(x => x.time_imported)
\* over the entries of file_services.current, a sequence of records whose
\* time_imported field may be missing; 0 is falsy.
RECURSIVE importTimesOf(_)
importTimesOf(current) ==
  IF current = <<>> THEN <<>>
  ELSE (IF "time_imported" \in DOMAIN Head(current)
           /\ Head(current).time_imported # 0
        THEN <<Head(current).time_imported>> ELSE <<>>)
       \o importTimesOf(Tail(current))

\* Math.min(...importTimes)
RECURSIVE MathMin(_)
MathMin(xs) ==
  IF Len(xs) = 1 THEN xs[1]
  ELSE LET m == MathMin(Tail(xs)) IN IF xs[1] < m THEN xs[1] ELSE m

\* A field set to undefined is a field left out of the record; a Date is its
\* epoch milliseconds.
processFileFromAPI(file, services) ==
  LET importTimes ==
        IF "current" \in DOMAIN file.file_services
        THEN importTimesOf(file.file_services.current) ELSE <<>>
      base == Spread(file, basicFileExtraInfo(file))
      timed == IF Len(importTimes) > 0
               THEN Spread(base, [time_imported |-> MathMin(importTimes) * 1000])
               ELSE base
  IN  IF "ratings" \in DOMAIN file
      THEN Spread(timed, [ratings_array |-> generateRatingsArray(file.ratings, services)])
      ELSE timed

\* ---------------------------------------------------------------- backend

\* The remote API (HydrusApiService.getFileMetadata and the server behind
\* it).  A request names files by identifier or by hash; a successful
\* response holds a record for any subset of the files asked for, in any
\* order, each with the content the backend has at that moment.

\* All orderings of the finite set S.
RECURSIVE Perms(_)
Perms(S) ==
  IF S = {} THEN {<<>>}
  ELSE UNION {{<<x>> \o p : p \in Perms(S \ {x})} : x \in S}

\* HydrusFileFromAPI for file i: RawBasic plus the fields the full request
\* adds.  File 1 is current in two services and rated, file 2 is current in
\* a service without an import time, the others are in no service.
RawFull(i, m) ==
  Spread(RawBasic(i, m),
    IF i = 1
    THEN [file_services |->
            [current |-> <<[time_imported |-> 100], [time_imported |-> 50]>>],
          ratings |-> <<<<"svcN", 3>>, <<"svcX", 1>>>>]
    ELSE IF i = 2
    THEN [file_services |-> [current |-> <<EmptyMap>>]]
    ELSE [file_services |-> EmptyMap])

\* The service directory a full response carries.
BackendServices ==
  [k \in {"svcN"} |-> [name |-> "stars", type |-> "LOCAL_RATING_NUMERICAL"]]

\* The metadata lists the backend may answer a request for the files of the
\* sequence fileIds with; full tells the record shape.
BackendMetadata(fileIds, full) ==
  UNION {
    {[k \in 1..Len(p) |->
        IF full THEN RawFull(p[k], mm[p[k]]) ELSE RawBasic(p[k], mm[p[k]])] :
       p \in Perms(S), mm \in [S -> Mimes]} :
    S \in SUBSET Range(fileIds)}

\* ------------------------------------------------------------------ calls

MetadataKind == "getFileMetadata"

BasicKinds == {"getFileMetadata", "getBasicFilesById", "getBasicFilesByHash"}

HashKinds ==
  {"getBasicFilesByHash", "getFilesByHash", "getFileByHash", "getRawFileMetadata"}

\* The files a list of request keys (identifiers or hashes) names.
FilesOfKeys(kind, keys) ==
  IF kind \in HashKinds THEN [k \in 1..Len(keys) |-> keys[k][2]] ELSE keys

\* The field cleared is history: clearFilesCache ran while the call was alive.
IdleCall ==
  [pc |-> "idle", kind |-> "none", keys |-> <<>>, existing |-> <<>>,
   toGet |-> <<>>, req |-> <<>>, resp |-> <<>>, result |-> <<>>,
   cleared |-> FALSE]

\* A slot is free for a new call when it holds no Observable.
Free(c) == calls[c].pc = "idle"

\* The state of one request: waiting for its answer, answered with a
\* metadata list, or failed (transport error, non-success response).
Pending == [arrived |-> FALSE, error |-> FALSE, metadata |-> <<>>]

Answered(metadata) == [arrived |-> TRUE, error |-> FALSE, metadata |-> metadata]

Failed == [arrived |-> FALSE, error |-> TRUE, metadata |-> <<>>]

\* Mutation: an identifier another live call is already fetching is not
\* requested again.
getFileMetadataCoalesced(c, fileIds) ==
  LET inFlight == UNION {Range(calls[d].toGet) :
                           d \in {e \in CallIds \ {c} :
                                    /\ calls[e].kind = MetadataKind
                                    /\ calls[e].pc \in {"created", "waiting"}}}
      Wanted(i) == i \notin inFlight
      toGet == SelectSeq(filesToGet(allFiles, fileIds), Wanted)
  IN
  /\ Free(c)
  /\ calls' = [calls EXCEPT ![c] =
       [pc |-> "created", kind |-> MetadataKind, keys |-> fileIds,
        existing |-> existingFiles(allFiles, fileIds),
        toGet |-> toGet,
        req |-> chunk(toGet, chunkSize),
        resp |-> <<>>, result |-> <<>>, cleared |-> FALSE]]
  /\ UNCHANGED <<allFiles, chunkSize, ret, normalizer>>

\* getFileMetadata(fileIds): the partition against the cache and the
\* building of the pipeline run now; no request is sent before subscription.
getFileMetadata(c, fileIds) ==
  /\ Free(c)
  /\ calls' = [calls EXCEPT ![c] =
       [pc |-> "created", kind |-> MetadataKind, keys |-> fileIds,
        existing |-> existingFiles(allFiles, fileIds),
        toGet |-> filesToGet(allFiles, fileIds),
        req |-> chunk(filesToGet(allFiles, fileIds), chunkSize),
        resp |-> <<>>, result |-> <<>>, cleared |-> FALSE]]
  /\ UNCHANGED <<allFiles, chunkSize, ret, normalizer>>

\* Mutation: the lookup is answered from the cache when it holds every file
\* asked for.
directLookupCached(c, kind, keys) ==
  LET ids == FilesOfKeys(kind, keys)
      hit == keys # <<>> /\ Range(ids) \subseteq DOMAIN allFiles
  IN
  /\ Free(c)
  /\ calls' = [calls EXCEPT ![c] =
       [pc |-> "created", kind |-> kind, keys |-> keys,
        existing |-> IF hit THEN existingFiles(allFiles, ids) ELSE <<>>,
        toGet |-> IF hit THEN <<>> ELSE keys,
        req |-> IF keys = <<>> \/ hit THEN <<>> ELSE <<keys>>,
        resp |-> <<>>, result |-> <<>>, cleared |-> FALSE]]
  /\ UNCHANGED <<allFiles, chunkSize, ret, normalizer>>

\* getBasicFilesById, getFilesById, getBasicFilesByHash, getFilesByHash:
\* one request for the whole list; getFileById, getFileByHash and
\* getRawFileMetadata: one request for the one key.  None looks at the cache.
directLookup(c, kind, keys) ==
  /\ Free(c)
  /\ calls' = [calls EXCEPT ![c] =
       [pc |-> "created", kind |-> kind, keys |-> keys,
        existing |-> <<>>, toGet |-> keys,
        req |-> IF keys = <<>> THEN <<>> ELSE <<keys>>,
        resp |-> <<>>, result |-> <<>>, cleared |-> FALSE]]
  /\ UNCHANGED <<allFiles, chunkSize, ret, normalizer>>

\* History: the identifiers of a delivered getFileMetadata result.
returnedBy(call, result) ==
  [i \in Ids |->
     IF \E k \in 1..Len(result) : result[k].file_id = i
     THEN (IF call.cleared THEN "stale" ELSE "kept")
     ELSE ret[i]]

\* Mutation: the guard for the empty list left out; the empty fan-out is
\* joined, which never emits.
emitsAtOnceNever(call) == FALSE

\* if (fileIds.length === 0) { return of([]); }  -- in getAndAddMetadata and
\* in the list lookups: such an Observable emits [] at subscription.
emitsAtOnce(call) == call.req = <<>>

\* Mutation: the partition against the cache is made at subscription.
subscribeRepartitioned(c) ==
  LET call == [calls[c] EXCEPT
                 !.existing = IF calls[c].kind = MetadataKind
                              THEN existingFiles(allFiles, calls[c].keys) ELSE @,
                 !.toGet = IF calls[c].kind = MetadataKind
                           THEN filesToGet(allFiles, calls[c].keys) ELSE @,
                 !.req = IF calls[c].kind = MetadataKind
                         THEN chunk(filesToGet(allFiles, calls[c].keys), chunkSize)
                         ELSE @]
  IN
  /\ calls[c].pc = "created"
  /\ IF call.req = <<>>
     THEN LET result == IF call.kind = MetadataKind
                        THEN fileMetadataResult(call.existing, <<>>, call.keys)
                        ELSE <<>>
          IN  /\ calls' = [calls EXCEPT ![c] =
                             [call EXCEPT !.pc = "done", !.result = result]]
              /\ ret' = returnedBy(call, result)
     ELSE /\ calls' = [calls EXCEPT ![c] =
                         [call EXCEPT !.pc = "waiting",
                            !.resp = [k \in 1..Len(call.req) |-> Pending]]]
          /\ ret' = ret
  /\ UNCHANGED <<allFiles, chunkSize, normalizer>>

\* subscribe(): of(existingFiles) emits at once; with nothing to fetch the
\* joined result is delivered in the same step, else every chunk's request
\* is sent.
subscribe(c) ==
  /\ calls[c].pc = "created"
  /\ IF emitsAtOnce(calls[c])
     THEN LET result == IF calls[c].kind = MetadataKind
                        THEN fileMetadataResult(calls[c].existing, <<>>, calls[c].keys)
                        ELSE <<>>
          IN  /\ calls' = [calls EXCEPT ![c].pc = "done", ![c].result = result]
              /\ ret' = returnedBy(calls[c], result)
     ELSE /\ calls' = [calls EXCEPT ![c].pc = "waiting",
                         ![c].resp = [k \in 1..Len(calls[c].req) |-> Pending]]
          /\ ret' = ret
  /\ UNCHANGED <<allFiles, chunkSize, normalizer>>

\* map(files => files.flat()) over the joined chunk responses.
flatMetadata(resp) == Flat([k \in 1..Len(resp) |-> resp[k].metadata])

\* map(v => v.map(i => this.processBasicFileFromAPI(i)))
processedBasic(metadata) ==
  [k \in 1..Len(metadata) |-> processBasicFileFromAPI(metadata[k])]

\* map(v => v.metadata.map(i => this.processFileFromAPI(i, v.services)))
processedFull(metadata, services) ==
  [k \in 1..Len(metadata) |-> processFileFromAPI(metadata[k], services)]

\* Mutation: the tap left out, nothing is stored.
cacheAfterFetchSkipped(cache, v) == cache

\* tap(v => this.addFilesAndTags(v)) of getAndAddMetadata
cacheAfterFetch(cache, v) == addFilesAndTags(cache, v)

\* files[0]: the one-element list of the first record, or the empty list for
\* undefined.
firstOf(files) == IF files = <<>> THEN <<>> ELSE <<files[1]>>

\* Mutation: the records come out in the reverse of the response's order.
directResultReversed(kind, metadata) ==
  [k \in 1..Len(metadata) |->
     processBasicFileFromAPI(metadata[Len(metadata) + 1 - k])]

\* What the pipe of a direct lookup makes of the response.
directResult(kind, metadata) ==
  IF kind \in {"getBasicFilesById", "getBasicFilesByHash"} THEN processedBasic(metadata)
  ELSE IF kind \in {"getFilesById", "getFilesByHash"}
       THEN processedFull(metadata, BackendServices)
  ELSE IF kind = "getRawFileMetadata" THEN firstOf(metadata)
  ELSE firstOf(processedFull(metadata, BackendServices))

\* Mutation: the records are stored although the subscription is closed.
cacheAfterDroppedStored(cache, call, metadata) ==
  IF call.kind = MetadataKind
  THEN addFilesAndTags(cache, processedBasic(metadata)) ELSE cache

\* The cache after a response that no subscription receives.
cacheAfterDropped(cache, call, metadata) == cache

\* forkJoin emits when its last source has emitted: the response that
\* completes the join runs the rest of the pipe in the same step.
joined(c, resp) ==
  LET call == calls[c] IN
  IF call.kind = MetadataKind
  THEN LET v == processedBasic(flatMetadata(resp))
           result == fileMetadataResult(call.existing, v, call.keys)
       IN  /\ allFiles' = cacheAfterFetch(allFiles, v)
           /\ calls' = [calls EXCEPT ![c].pc = "done", ![c].resp = resp,
                          ![c].result = result]
           /\ ret' = returnedBy(call, result)
  ELSE /\ allFiles' = allFiles
       /\ calls' = [calls EXCEPT ![c].pc = "done", ![c].resp = resp,
                      ![c].result = directResult(call.kind, resp[1].metadata)]
       /\ ret' = ret

\* The backend answers request k of call c.
response(c, k, metadata) ==
  /\ calls[c].pc = "waiting"
  /\ k \in 1..Len(calls[c].req)
  /\ ~calls[c].resp[k].arrived
  /\ LET resp == [calls[c].resp EXCEPT ![k] = Answered(metadata)]
     IN  IF \A j \in 1..Len(resp) : resp[j].arrived
         THEN joined(c, resp)
         ELSE /\ calls' = [calls EXCEPT ![c].resp = resp]
              /\ allFiles' = allFiles
              /\ ret' = ret
  /\ UNCHANGED <<chunkSize, normalizer>>

\* Mutation: a failed chunk is skipped and the answered chunks are delivered
\* and stored.
responseErrorPartial(c, k) ==
  /\ calls[c].pc = "waiting"
  /\ k \in 1..Len(calls[c].req)
  /\ ~calls[c].resp[k].arrived
  /\ LET resp == [calls[c].resp EXCEPT ![k] = Failed]
         v == processedBasic(flatMetadata(resp))
     IN  /\ calls' = [calls EXCEPT ![c].pc = "done", ![c].resp = resp,
                        ![c].result = v]
         /\ allFiles' = IF calls[c].kind = MetadataKind
                        THEN addFilesAndTags(allFiles, v) ELSE allFiles
  /\ UNCHANGED <<chunkSize, ret, normalizer>>

\* Request k of call c fails: forkJoin errors at once and drops the other
\* requests; map and tap do not run.
responseError(c, k) ==
  /\ calls[c].pc = "waiting"
  /\ k \in 1..Len(calls[c].req)
  /\ ~calls[c].resp[k].arrived
  /\ calls' = [calls EXCEPT ![c].pc = "failed", ![c].resp[k] = Failed]
  /\ UNCHANGED <<allFiles, chunkSize, ret, normalizer>>

\* The caller drops the Observable unsubscribed, or unsubscribes before the
\* result: the subscription is torn down and nothing of the pipe runs later.
abandon(c) ==
  /\ calls[c].pc \in {"created", "waiting"}
  /\ calls' = [calls EXCEPT ![c].pc = "abandoned"]
  /\ UNCHANGED <<allFiles, chunkSize, ret, normalizer>>

\* A response to a request of an abandoned call: the subscription is closed,
\* so neither map nor tap sees it.
droppedResponse(c, k, metadata) ==
  /\ calls[c].pc = "abandoned"
  /\ k \in 1..Len(calls[c].resp)
  /\ ~calls[c].resp[k].arrived
  /\ calls' = [calls EXCEPT ![c].resp[k] = Answered(metadata)]
  /\ allFiles' = cacheAfterDropped(allFiles, calls[c], metadata)
  /\ UNCHANGED <<chunkSize, ret, normalizer>>

\* The caller is through with a finished or abandoned Observable.
release(c) ==
  /\ calls[c].pc \in {"done", "failed", "abandoned"}
  /\ calls' = [calls EXCEPT ![c] = IdleCall]
  /\ UNCHANGED <<allFiles, chunkSize, ret, normalizer>>

\* Mutation: clearing the cache cancels the fetches in flight.
clearFilesCacheCancels ==
  /\ allFiles' = clearedCache
  /\ calls' = [c \in CallIds |->
                 IF calls[c].pc \in {"created", "waiting"}
                 THEN [calls[c] EXCEPT !.cleared = TRUE, !.pc = "abandoned"]
                 ELSE calls[c]]
  /\ ret' = [i \in Ids |-> IF ret[i] = "never" THEN "never" ELSE "stale"]
  /\ UNCHANGED <<chunkSize, normalizer>>

\* this.allFiles.clear().  History: every live call has now seen a clear, and
\* what was returned so far is no longer known to be cached.
clearFilesCache ==
  /\ allFiles' = clearedCache
  /\ calls' = [c \in CallIds |->
                 IF calls[c].pc \in {"created", "waiting"}
                 THEN [calls[c] EXCEPT !.cleared = TRUE] ELSE calls[c]]
  /\ ret' = [i \in Ids |-> IF ret[i] = "never" THEN "never" ELSE "stale"]
  /\ UNCHANGED <<chunkSize, normalizer>>

\* getFilesCacheSize() reads allFiles.size and changes nothing.
readFilesCacheSize ==
  /\ getFilesCacheSize \in 0..NumIds
  /\ UNCHANGED vars

\* deleteFile, undeleteFile, archiveFile, unarchiveFile hand the hash to the
\* API client and touch no state of the service.
MutationOps == {"deleteFile", "undeleteFile", "archiveFile", "unarchiveFile"}

\* Mutation: the cached entry of the file is invalidated.
remoteMutationInvalidates(op, hash) ==
  /\ op \in MutationOps
  /\ hash \in Hashes
  /\ allFiles' = [i \in (DOMAIN allFiles) \ {hash[2]} |-> allFiles[i]]
  /\ UNCHANGED <<chunkSize, calls, ret, normalizer>>

remoteMutation(op, hash) ==
  /\ op \in MutationOps
  /\ hash \in Hashes
  /\ UNCHANGED vars

\* No record is under normalization.
NoRecord == [pc |-> "none"]

\* ---------------------------------------------------------- specification

IdLists == UniqueSeqs(Ids, 0, MaxLen)

HashLists == UniqueSeqs(Hashes, 0, MaxLen)

Init ==
  /\ allFiles = EmptyMap
  /\ chunkSize \in ChunkSizes
  /\ calls = [c \in CallIds |-> IdleCall]
  /\ ret = [i \in Ids |-> "never"]
  /\ normalizer = NoRecord

\* One Observable alive at a time.
Callers == {1}

\* The cached path: getFileMetadata, its responses, and the cache operations.
Next ==
  \/ \E c \in Callers, fileIds \in IdLists : getFileMetadata(c, fileIds)
  \/ \E c \in Callers : subscribe(c)
  \/ \E c \in Callers, k \in 1..MaxLen :
       \E metadata \in BackendMetadata(
            IF calls[c].pc = "waiting" /\ k <= Len(calls[c].req)
            THEN FilesOfKeys(calls[c].kind, calls[c].req[k]) ELSE <<>>,
            calls[c].kind \notin BasicKinds) :
         response(c, k, metadata)
  \/ \E c \in Callers, k \in 1..MaxLen :
       \E metadata \in BackendMetadata(
            IF calls[c].pc = "abandoned" /\ k <= Len(calls[c].resp)
            THEN FilesOfKeys(calls[c].kind, calls[c].req[k]) ELSE <<>>,
            calls[c].kind \notin BasicKinds) :
         droppedResponse(c, k, metadata)
  \/ \E c \in Callers : release(c)
  \/ \E c \in Callers, k \in 1..MaxLen : responseError(c, k)
  \/ \E c \in Callers : abandon(c)
  \/ clearFilesCache
  \/ readFilesCacheSize

Spec == Init /\ [][Next]_vars

\* Every operation of the service: the cached path, the uncached lookups and
\* the pass-through mutations.
NextLookups ==
  \/ Next
  \/ \E c \in Callers, kind \in {"getBasicFilesById", "getFilesById"}, ids \in IdLists :
       directLookup(c, kind, ids)
  \/ \E c \in Callers, kind \in {"getBasicFilesByHash", "getFilesByHash"}, hs \in HashLists :
       directLookup(c, kind, hs)
  \/ \E c \in Callers, id \in Ids : directLookup(c, "getFileById", <<id>>)
  \/ \E c \in Callers, kind \in {"getFileByHash", "getRawFileMetadata"}, h \in Hashes :
       directLookup(c, kind, <<h>>)
  \/ \E op \in MutationOps, hash \in Hashes : remoteMutation(op, hash)

SpecLookups == Init /\ [][NextLookups]_vars

\* Two Observables alive at the same time: getFileMetadata calls whose
\* fetches overlap each other and clearFilesCache.
NextConcurrent ==
  \/ \E c \in CallIds, fileIds \in IdLists : getFileMetadata(c, fileIds)
  \/ \E c \in CallIds : subscribe(c)
  \/ \E c \in CallIds, k \in 1..MaxLen :
       \E metadata \in BackendMetadata(
            IF calls[c].pc = "waiting" /\ k <= Len(calls[c].req)
            THEN FilesOfKeys(calls[c].kind, calls[c].req[k]) ELSE <<>>,
            calls[c].kind \notin BasicKinds) :
         response(c, k, metadata)
  \/ clearFilesCache

SpecConcurrent == Init /\ [][NextConcurrent]_vars

\* ------------------------------------------------- normalizer on its own

\* Epoch seconds a service reports as import time.
ImportTimes == {0, 50, 100}

\* One entry of file_services.current: time_imported is optional.
CurrentEntries == {EmptyMap} \cup {[time_imported |-> t] : t \in ImportTimes}

\* Object.values(file_services.current), for every current map of at most
\* MaxServices entries.
CurrentMaps == UNION {[1..n -> CurrentEntries] : n \in 0..MaxServices}

\* file_services: current is optional.
FileServices == {EmptyMap} \cup {[current |-> cm] : cm \in CurrentMaps}

\* Service keys of a raw ratings map: a numerical, a like and an inc/dec
\* rating service, a tag service, and a key of no service of the directory.
RatingKeys == {"svcN", "svcL", "svcI", "svcT", "svcX"}

\* Raw rating values by their runtime shape: null, a boolean, a number.
RatingValues == {"null", "true", "5"}

\* Object.entries(ratings), for every ratings map of at most MaxServices
\* entries, each key once.
RatingsMaps ==
  {r \in UniqueSeqs(RatingKeys \X RatingValues, 0, MaxServices) :
     \A i, j \in 1..Len(r) : i # j => r[i][1] # r[j][1]}

\* The service directory of a response: key -> descriptor with its declared
\* type.
ServiceDirectory ==
  [k \in {"svcN", "svcL", "svcI", "svcT"} |->
     [name |-> k,
      type |-> IF k = "svcN" THEN "LOCAL_RATING_NUMERICAL"
               ELSE IF k = "svcL" THEN "LOCAL_RATING_LIKE"
               ELSE IF k = "svcI" THEN "LOCAL_RATING_INCDEC"
               ELSE "LOCAL_TAG"]]

\* HydrusFileFromAPI records of file 1: any mime, any file_services, ratings
\* optional.
RawFiles ==
  {Spread(Spread(RawBasic(1, m), [file_services |-> fs]), rt) :
     m \in Mimes, fs \in FileServices,
     rt \in {EmptyMap} \cup {[ratings |-> r] : r \in RatingsMaps}}

\* HydrusFiletype: the members getFileCategory names and some it does not.
Filetypes ==
  ImageTypes \cup VideoTypes \cup AudioTypes \cup FlashTypes
    \cup {"APPLICATION_UNKNOWN", "APPLICATION_PDF", "APPLICATION_ZIP", "TEXT_PLAIN"}

\* What the normalizer is given: a raw record with the directory of its
\* response, or a filetype.
NormalizerInputs ==
  {[pc |-> "file", file |-> f, services |-> ServiceDirectory] : f \in RawFiles}
    \cup {[pc |-> "filetype", filetype |-> t] : t \in Filetypes}

\* processFileFromAPI(file, services)
normalizeFull ==
  /\ normalizer.pc = "file"
  /\ normalizer' = [pc |-> "full", file |-> normalizer.file,
                    services |-> normalizer.services,
                    out |-> processFileFromAPI(normalizer.file, normalizer.services)]
  /\ UNCHANGED <<allFiles, chunkSize, calls, ret>>

\* processBasicFileFromAPI(file)
normalizeBasic ==
  /\ normalizer.pc = "file"
  /\ normalizer' = [pc |-> "basic", file |-> normalizer.file,
                    services |-> normalizer.services,
                    out |-> processBasicFileFromAPI(normalizer.file)]
  /\ UNCHANGED <<allFiles, chunkSize, calls, ret>>

\* getFileCategory(type)
categorize ==
  /\ normalizer.pc = "filetype"
  /\ normalizer' = [pc |-> "category", filetype |-> normalizer.filetype,
                    out |-> getFileCategory(normalizer.filetype)]
  /\ UNCHANGED <<allFiles, chunkSize, calls, ret>>

InitNormalize ==
  /\ allFiles = EmptyMap
  /\ chunkSize = QUERY_CHUNK_SIZE
  /\ calls = [c \in CallIds |-> IdleCall]
  /\ ret = [i \in Ids |-> "never"]
  /\ normalizer \in NormalizerInputs

NextNormalize ==
  \/ normalizeFull
  \/ normalizeBasic
  \/ categorize

\* The normalizer applied to every raw record and filetype of the bounds.
SpecNormalize == InitNormalize /\ [][NextNormalize]_vars

\* ----------------------------------------------------------------- claims

MetadataCall(c) == calls[c].kind = MetadataKind

\* The identifiers of a list of records.
FileIdsOf(files) == {files[k].file_id : k \in 1..Len(files)}

\* The raw records the backend returned to call c, in the order of the join.
Fetched(c) == flatMetadata(calls[c].resp)

\* C1: the records of a successful getFileMetadata(ids) result stand in the
\* relative order of their identifiers in ids: for a before b,
\* indexOf(ids, a.file_id) <= indexOf(ids, b.file_id).
C1_ResultInCallerOrder ==
  \A c \in CallIds :
    (MetadataCall(c) /\ calls[c].pc = "done") =>
      \A i, j \in 1..Len(calls[c].result) :
        i < j => indexOf(calls[c].keys, calls[c].result[i].file_id)
                   <= indexOf(calls[c].keys, calls[c].result[j].file_id)

\* A result made of a cache hit and a fetched record, the cache hit standing
\* behind the fetched record in ids.
C1_Witness ==
  \E c \in CallIds :
    /\ MetadataCall(c) /\ calls[c].pc = "done"
    /\ Len(calls[c].existing) = 1 /\ Len(Fetched(c)) = 1 /\ Len(calls[c].result) = 2
    /\ indexOf(calls[c].keys, calls[c].existing[1].file_id)
         > indexOf(calls[c].keys, Fetched(c)[1].file_id)

\* C2 as stated: the record at position i of a successful result is the
\* record of ids[i].
C2_PositionIsId ==
  \A c \in CallIds :
    (MetadataCall(c) /\ calls[c].pc = "done") =>
      \A i \in 1..Len(calls[c].result) :
        calls[c].result[i].file_id = calls[c].keys[i]

\* C2, amended: when every identifier of ids is cached or returned by the
\* backend, the result has one record per identifier and the record at
\* position i is the record of ids[i].
C2_PositionIsIdWhenAllFound ==
  \A c \in CallIds :
    (/\ MetadataCall(c) /\ calls[c].pc = "done"
     /\ Range(calls[c].keys) \subseteq
          FileIdsOf(calls[c].existing) \cup FileIdsOf(Fetched(c))) =>
      /\ Len(calls[c].result) = Len(calls[c].keys)
      /\ \A i \in 1..Len(calls[c].keys) :
           calls[c].result[i].file_id = calls[c].keys[i]

\* Both identifiers fetched, the backend answering in the reverse of the
\* order asked for.
C2_Witness ==
  \E c \in CallIds :
    /\ MetadataCall(c) /\ calls[c].pc = "done"
    /\ Len(calls[c].keys) = 2 /\ Len(calls[c].resp) = 1
    /\ Len(Fetched(c)) = 2
    /\ Fetched(c)[1].file_id = calls[c].keys[2]
    /\ Fetched(c)[2].file_id = calls[c].keys[1]

\* Steps of call c, told by its position before and after.
CallStep(c) == calls[c].pc = "idle" /\ calls'[c].pc = "created"

SubscribeStep(c) == calls[c].pc = "created" /\ calls'[c].pc \in {"waiting", "done"}

JoinStep(c) == calls[c].pc = "waiting" /\ calls'[c].pc = "done"

\* The call made in this step finds every identifier in the cache: nothing
\* is left to fetch and the cached records are taken as they are.
ServedFromCache(c) ==
  /\ calls'[c].req = <<>>
  /\ Len(calls'[c].existing) = Len(calls'[c].keys)
  /\ \A k \in 1..Len(calls'[c].keys) :
       /\ calls'[c].keys[k] \in DOMAIN allFiles
       /\ calls'[c].existing[k] = allFiles[calls'[c].keys[k]]

\* A getFileMetadata call with nothing to fetch delivers the records it took
\* from the cache at subscription and sends no request.
DeliversWithoutRequest(c) ==
  (MetadataCall(c) /\ calls[c].req = <<>> /\ SubscribeStep(c)) =>
    /\ calls'[c].pc = "done"
    /\ calls'[c].resp = <<>>
    /\ calls'[c].result = calls[c].existing

\* A getFileMetadata call is made for identifiers that all have status st.
CallForAll(c, st) ==
  /\ CallStep(c)
  /\ calls'[c].kind = MetadataKind
  /\ calls'[c].keys # <<>>
  /\ \A k \in 1..Len(calls'[c].keys) : ret[calls'[c].keys[k]] \in st

\* C3 as stated: a call for identifiers that an earlier successful
\* getFileMetadata returned sends no request and returns the cached records.
C3_ReturnedIsServedFromCache ==
  [][\A c \in CallIds :
       /\ CallForAll(c, {"kept", "stale"}) => ServedFromCache(c)
       /\ DeliversWithoutRequest(c)]_vars

\* C3, amended: identifiers returned by a successful getFileMetadata call are
\* in the cache as long as clearFilesCache has not run since that call was
\* made, and a call for such identifiers only sends no request and returns
\* the records the cache holds for them.
C3_KeptIsServedFromCache ==
  /\ [](\A i \in Ids : ret[i] = "kept" => i \in DOMAIN allFiles)
  /\ [][\A c \in CallIds :
          /\ CallForAll(c, {"kept"}) => ServedFromCache(c)
          /\ DeliversWithoutRequest(c)]_vars

\* A second call, served from the cache alone: two identifiers, no request.
C3_Witness ==
  \E c \in CallIds :
    /\ MetadataCall(c) /\ calls[c].pc = "done" /\ ~calls[c].cleared
    /\ Len(calls[c].keys) = 2 /\ calls[c].resp = <<>>
    /\ Len(calls[c].result) = 2
    /\ \A k \in 1..2 : /\ ret[calls[c].keys[k]] = "kept"
                       /\ calls[c].result[k] = allFiles[calls[c].keys[k]]

\* C4: when a chunk request of a getFileMetadata call fails the call fails
\* and delivers nothing, and neither the failure nor the chunks answered
\* before it put a record into the cache.
C4_FailureIsWhole ==
  /\ [](\A c \in CallIds :
          (MetadataCall(c) /\ \E k \in 1..Len(calls[c].resp) : calls[c].resp[k].error)
            => calls[c].pc = "failed" /\ calls[c].result = <<>>)
  /\ [][\A c \in CallIds :
          (/\ MetadataCall(c) /\ calls[c].pc = "waiting"
           /\ calls'[c].pc \in {"waiting", "failed"}
           /\ calls'[c].resp # calls[c].resp) => allFiles' = allFiles]_vars

\* A failed call one chunk of which had been answered with a record, and
\* that record is not in the cache.
C4_Witness ==
  \E c \in CallIds :
    /\ MetadataCall(c) /\ calls[c].pc = "failed" /\ ~calls[c].cleared
    /\ Len(calls[c].resp) = 2
    /\ calls[c].resp[1].arrived /\ Len(calls[c].resp[1].metadata) = 1
    /\ calls[c].resp[2].error
    /\ calls[c].resp[1].metadata[1].file_id \notin DOMAIN allFiles

\* C5: an identifier neither cached nor returned by the backend is absent
\* from the successful result, which holds the cache hits and the returned
\* records and nothing else; the fetch adds cache entries for the returned
\* identifiers only.
C5_MissingIsAbsent ==
  /\ [](\A c \in CallIds :
          (MetadataCall(c) /\ calls[c].pc = "done") =>
            /\ Len(calls[c].result) = Len(calls[c].existing) + Len(Fetched(c))
            /\ \A k \in 1..Len(calls[c].result) :
                 calls[c].result[k] \in
                   Range(calls[c].existing)
                     \cup {processBasicFileFromAPI(f) : f \in Range(Fetched(c))}
            /\ FileIdsOf(calls[c].result) =
                 FileIdsOf(calls[c].existing) \cup FileIdsOf(Fetched(c)))
  /\ [][\A c \in CallIds :
          (MetadataCall(c) /\ JoinStep(c)) =>
            DOMAIN allFiles' =
              (DOMAIN allFiles) \cup FileIdsOf(flatMetadata(calls'[c].resp))]_vars

\* ids = [a, b], b not returned: the result is [record(a)] and b is not cached.
C5_Witness ==
  \E c \in CallIds :
    /\ MetadataCall(c) /\ calls[c].pc = "done" /\ ~calls[c].cleared
    /\ Len(calls[c].keys) = 2 /\ calls[c].toGet = calls[c].keys
    /\ Len(calls[c].result) = 1
    /\ calls[c].result[1].file_id = calls[c].keys[1]
    /\ calls[c].keys[2] \notin DOMAIN allFiles

\* The last response to an abandoned getFileMetadata call has come in.
DroppedJoinStep(c) ==
  /\ MetadataCall(c) /\ calls[c].pc = "abandoned"
  /\ calls'[c].resp # calls[c].resp
  /\ \A k \in 1..Len(calls'[c].resp) : calls'[c].resp[k].arrived

\* C6 as stated: once the requests are sent, the cache is populated from the
\* responses that complete even though the caller has unsubscribed.
C6_AbandonedStillPopulates ==
  [][\A c \in CallIds :
       DroppedJoinStep(c) =>
         \A f \in Range(flatMetadata(calls'[c].resp)) :
           /\ f.file_id \in DOMAIN allFiles'
           /\ allFiles'[f.file_id] = processBasicFileFromAPI(f)]_vars

\* C6, amended: the cache is populated from the responses only when the
\* caller is still subscribed at the moment the last one arrives; a call
\* dropped before subscription sends no request, and the responses to a call
\* unsubscribed earlier leave the cache as it is and deliver nothing.
C6_AbandonedLeavesCache ==
  /\ [](\A c \in CallIds :
          (MetadataCall(c) /\ calls[c].pc = "abandoned") => calls[c].result = <<>>)
  /\ [][\A c \in CallIds :
          /\ (MetadataCall(c) /\ calls[c].pc = "abandoned"
                /\ calls'[c].resp # calls[c].resp) => allFiles' = allFiles
          /\ (MetadataCall(c) /\ calls[c].pc = "created"
                /\ calls'[c].pc = "abandoned") => calls'[c].resp = <<>>
          /\ (MetadataCall(c) /\ JoinStep(c)) =>
               \A f \in Range(flatMetadata(calls'[c].resp)) :
                 /\ f.file_id \in DOMAIN allFiles'
                 /\ allFiles'[f.file_id] \in
                      {processBasicFileFromAPI(g) :
                         g \in Range(flatMetadata(calls'[c].resp))}]_vars

\* An unsubscribed call all of whose responses came in with a record that is
\* not in the cache.
C6_Witness ==
  \E c \in CallIds :
    /\ MetadataCall(c) /\ calls[c].pc = "abandoned" /\ ~calls[c].cleared
    /\ calls[c].resp # <<>>
    /\ \A k \in 1..Len(calls[c].resp) :
         /\ calls[c].resp[k].arrived
         /\ calls[c].resp[k].metadata # <<>>
    /\ \A f \in Range(Fetched(c)) : f.file_id \notin DOMAIN allFiles

\* C7: clearFilesCache leaves a cache of size 0; a getFileMetadata call made
\* on the emptied cache asks the backend for every identifier again, and its
\* successful response puts the returned records into the cache.
C7_ClearThenRefetch ==
  [][/\ clearFilesCache => getFilesCacheSize' = 0
     /\ \A c \in CallIds :
          /\ (CallStep(c) /\ calls'[c].kind = MetadataKind /\ getFilesCacheSize = 0)
               => /\ calls'[c].toGet = calls'[c].keys
                  /\ Flat(calls'[c].req) = calls'[c].keys
          /\ (MetadataCall(c) /\ calls[c].req # <<>> /\ SubscribeStep(c))
               => /\ calls'[c].pc = "waiting"
                  /\ Len(calls'[c].resp) = Len(calls[c].req)
          /\ (MetadataCall(c) /\ JoinStep(c))
               => /\ FileIdsOf(flatMetadata(calls'[c].resp)) \subseteq DOMAIN allFiles'
                  /\ (flatMetadata(calls'[c].resp) # <<>> => getFilesCacheSize' > 0)]_vars

\* After a clear, a call made on the empty cache has sent a request for an
\* identifier that was cached before.
C7_Witness ==
  \E c \in CallIds :
    /\ MetadataCall(c) /\ calls[c].pc = "waiting" /\ ~calls[c].cleared
    /\ getFilesCacheSize = 0
    /\ \E k \in 1..Len(calls[c].toGet) : ret[calls[c].toGet[k]] = "stale"

\* The fetch joined in this step inserts or overwrites the entries of the
\* returned records and leaves every other entry as it is.
InsertOrOverwrite(c) ==
  LET returned == FileIdsOf(flatMetadata(calls'[c].resp)) IN
  /\ DOMAIN allFiles' = (DOMAIN allFiles) \cup returned
  /\ \A i \in (DOMAIN allFiles) \ returned : allFiles'[i] = allFiles[i]

\* C8: the cache changes only in the step that joins a successful
\* getFileMetadata fetch, by insert-or-overwrite, and in clearFilesCache; no
\* other operation (the uncached lookups, the remote mutations, a failed or
\* abandoned fetch, getFilesCacheSize) changes it, and only clearFilesCache
\* removes an entry.
C8_CacheFrame ==
  [][/\ allFiles' # allFiles =>
          \/ clearFilesCache
          \/ \E c \in CallIds : MetadataCall(c) /\ JoinStep(c) /\ InsertOrOverwrite(c)
     /\ ~clearFilesCache => (DOMAIN allFiles) \subseteq (DOMAIN allFiles')]_vars

\* An uncached identifier lookup has returned a record of a cached file whose
\* content differs from the cached record, and the cache still holds the old one.
C8_Witness ==
  \E c \in CallIds :
    /\ calls[c].kind = "getBasicFilesById" /\ calls[c].pc = "done"
    /\ ~calls[c].cleared
    /\ Len(calls[c].result) = 2
    /\ \A k \in 1..2 :
         /\ calls[c].result[k].file_id \in DOMAIN allFiles
         /\ allFiles[calls[c].result[k].file_id] # calls[c].result[k]

HashLookups == {"getBasicFilesByHash", "getFilesByHash", "getFileByHash"}

\* C9: a hash-keyed lookup with a non-empty hash list takes nothing from the
\* cache, sends one request for all its hashes when subscribed, whatever the
\* cache holds, returns what that response holds, and leaves the cache as it is.
C9_HashLookupsUncached ==
  /\ [](\A c \in CallIds :
          (calls[c].kind \in HashLookups /\ calls[c].keys # <<>>) =>
            /\ calls[c].existing = <<>>
            /\ calls[c].req = <<calls[c].keys>>
            /\ calls[c].pc \in {"waiting", "done"} => Len(calls[c].resp) = 1
            /\ calls[c].pc = "done" =>
                 /\ Len(calls[c].result) <= Len(calls[c].resp[1].metadata)
                 /\ \A k \in 1..Len(calls[c].result) :
                      /\ calls[c].result[k].hash = calls[c].resp[1].metadata[k].hash
                      /\ calls[c].result[k].mime = calls[c].resp[1].metadata[k].mime)
  /\ [][\A c \in CallIds :
          /\ (/\ calls[c].kind \in HashLookups \/ calls'[c].kind \in HashLookups
              /\ calls'[c].pc # calls[c].pc \/ calls'[c].resp # calls[c].resp)
               => allFiles' = allFiles
          /\ (calls[c].kind \in HashLookups /\ calls[c].keys # <<>> /\ SubscribeStep(c))
               => calls'[c].pc = "waiting" /\ calls'[c].resp = <<Pending>>]_vars

\* A hash lookup of a cached file has returned content that differs from the
\* cached record: the answer came from a fresh request.
C9_Witness ==
  \E c \in CallIds :
    /\ calls[c].kind = "getFilesByHash" /\ calls[c].pc = "done"
    /\ ~calls[c].cleared
    /\ Len(calls[c].result) = 1
    /\ calls[c].result[1].file_id \in DOMAIN allFiles
    /\ allFiles[calls[c].result[1].file_id].mime # calls[c].result[1].mime

\* C10 as stated: the records getBasicFilesByHash(hashes) returns stand in
\* the relative order of their hashes in hashes.
C10_HashResultInCallerOrder ==
  \A c \in CallIds :
    (calls[c].kind = "getBasicFilesByHash" /\ calls[c].pc = "done") =>
      \A i, j \in 1..Len(calls[c].result) :
        i < j => indexOf(calls[c].keys, calls[c].result[i].hash)
                   <= indexOf(calls[c].keys, calls[c].result[j].hash)

\* C10, amended: getBasicFilesByHash returns one record per record of the
\* backend's response, in the order of that response; it does not restore
\* the order of hashes.
C10_HashResultInBackendOrder ==
  \A c \in CallIds :
    (calls[c].kind = "getBasicFilesByHash" /\ calls[c].pc = "done"
       /\ calls[c].keys # <<>>) =>
      /\ Len(calls[c].result) = Len(calls[c].resp[1].metadata)
      /\ \A k \in 1..Len(calls[c].result) :
           calls[c].result[k] = processBasicFileFromAPI(calls[c].resp[1].metadata[k])

\* Two hashes asked for, answered by the backend in the reverse order and
\* returned in that reverse order.
C10_Witness ==
  \E c \in CallIds :
    /\ calls[c].kind = "getBasicFilesByHash" /\ calls[c].pc = "done"
    /\ Len(calls[c].keys) = 2 /\ Len(calls[c].result) = 2
    /\ calls[c].result[1].hash = calls[c].keys[2]
    /\ calls[c].result[2].hash = calls[c].keys[1]

\* C11: a getFileMetadata call with nothing to fetch (ids empty, or every
\* identifier cached at the call) builds no request, and at subscription it
\* completes in the same step with the records taken from the cache, [] for
\* ids = [], without a request and without touching the cache; it is never
\* left waiting on an empty set of requests.
C11_EmptyFetchShortCircuits ==
  /\ [](\A c \in CallIds :
          (MetadataCall(c) /\ calls[c].toGet = <<>>) =>
            /\ calls[c].req = <<>> /\ calls[c].resp = <<>>
            /\ calls[c].pc # "waiting"
            /\ (calls[c].pc = "done" /\ calls[c].keys = <<>>) => calls[c].result = <<>>)
  /\ [][\A c \in CallIds :
          (MetadataCall(c) /\ calls[c].toGet = <<>> /\ SubscribeStep(c)) =>
            /\ calls'[c].pc = "done"
            /\ calls'[c].result = calls[c].existing
            /\ Len(calls'[c].result) = Len(calls[c].keys)
            /\ allFiles' = allFiles]_vars

\* getFileMetadata([]) has completed with [] on a cache that is not empty.
C11_Witness ==
  \E c \in CallIds :
    /\ MetadataCall(c) /\ calls[c].pc = "done"
    /\ calls[c].keys = <<>> /\ calls[c].result = <<>> /\ calls[c].resp = <<>>
    /\ getFilesCacheSize > 0

\* The chunks are consecutive, non-empty slices of at most size identifiers
\* whose concatenation is the fetch list.
ChunksOf(req, toGet, size) ==
  /\ Flat(req) = toGet
  /\ \A k \in 1..Len(req) : req[k] # <<>> /\ Len(req[k]) <= size
  /\ \A k \in 1..(Len(req) - 1) : Len(req[k]) = size

\* C12: the fetch list is cut into consecutive non-empty chunks of at most
\* QUERY_CHUNK_SIZE identifiers whose concatenation is the fetch list; at
\* subscription one request per chunk is in flight at the same time; and the
\* result of the call is the one a single response holding the same records,
\* in any order, gives: it depends neither on the chunk size nor on which
\* chunk is answered last.
C12_ChunkedEqualsSingle ==
  /\ [](\A c \in CallIds :
          MetadataCall(c) =>
            /\ ChunksOf(calls[c].req, calls[c].toGet, chunkSize)
            /\ calls[c].pc = "waiting" => Len(calls[c].resp) = Len(calls[c].req)
            /\ calls[c].pc = "done" =>
                 \A single \in Perms(Range(Fetched(c))) :
                   /\ Len(single) = Len(Fetched(c))
                   /\ calls[c].result =
                        fileMetadataResult(calls[c].existing,
                                           processedBasic(single), calls[c].keys))
  /\ [][\A c \in CallIds :
          (MetadataCall(c) /\ calls[c].req # <<>> /\ SubscribeStep(c)) =>
            /\ Len(calls'[c].resp) = Len(calls[c].req)
            /\ \A k \in 1..Len(calls'[c].resp) : calls'[c].resp[k] = Pending]_vars

\* A fetch list longer than the chunk size, answered in full by two chunk
\* responses, the records standing in the result in the order of ids.
C12_Witness ==
  \E c \in CallIds :
    /\ MetadataCall(c) /\ calls[c].pc = "done"
    /\ Len(calls[c].toGet) > chunkSize
    /\ Len(calls[c].req) = 2
    /\ \A k \in 1..2 : Len(calls[c].resp[k].metadata) = Len(calls[c].req[k])
    /\ Len(calls[c].result) = Len(calls[c].keys)

\* The time_imported values defined on the entries of file_services.current.
DefinedImportTimes(file) ==
  IF "current" \in DOMAIN file.file_services
  THEN {file.file_services.current[k].time_imported :
          k \in {j \in 1..Len(file.file_services.current) :
                   "time_imported" \in DOMAIN file.file_services.current[j]}}
  ELSE {}

Earliest(S) == CHOOSE t \in S : \A u \in S : t <= u

\* C13: the normalized record has time_imported exactly when an entry of
\* file_services.current has a defined time_imported, and it is then the
\* minimum of the defined values (epoch second 0 included) as a timestamp
\* (milliseconds).
C13_EarliestImportTime ==
  normalizer.pc = "full" =>
    LET defined == DefinedImportTimes(normalizer.file) IN
    /\ defined = {} => "time_imported" \notin DOMAIN normalizer.out
    /\ defined # {} =>
         /\ "time_imported" \in DOMAIN normalizer.out
         /\ normalizer.out.time_imported = Earliest(defined) * 1000

\* What holds of the code: the values that count are the non-zero ones.
C13_EarliestNonZeroImportTime ==
  normalizer.pc = "full" =>
    LET defined == DefinedImportTimes(normalizer.file) \ {0} IN
    /\ defined = {} => "time_imported" \notin DOMAIN normalizer.out
    /\ defined # {} =>
         /\ "time_imported" \in DOMAIN normalizer.out
         /\ normalizer.out.time_imported = Earliest(defined) * 1000

RatingTypes ==
  {"LOCAL_RATING_NUMERICAL", "LOCAL_RATING_LIKE", "LOCAL_RATING_INCDEC"}

\* C14: ratings_array is present exactly when the raw record has ratings; it
\* has one element per entry of the raw map, in the map's order: for a key
\* the directory knows with a rating type, a record of that key, the
\* descriptor of the service (its declared type, whatever shape the value
\* has) and the raw value; for any other key, null.
C14_RatingsArray ==
  normalizer.pc = "full" =>
    LET file == normalizer.file
        services == normalizer.services
        out == normalizer.out
    IN  /\ ("ratings_array" \in DOMAIN out) <=> ("ratings" \in DOMAIN file)
        /\ "ratings" \in DOMAIN file =>
             /\ "ratings_array" \in DOMAIN out
             /\ Len(out.ratings_array) = Len(file.ratings)
             /\ \A k \in 1..Len(file.ratings) :
                  LET key == file.ratings[k][1]
                      value == file.ratings[k][2]
                      rating == out.ratings_array[k]
                  IN  IF key \in DOMAIN services /\ services[key].type \in RatingTypes
                      THEN /\ DOMAIN rating = {"service_key", "name", "type", "value"}
                           /\ rating.service_key = key
                           /\ rating.name = services[key].name
                           /\ rating.type = services[key].type
                           /\ rating.value = value
                      ELSE rating = Null

\* A like service rated with a number, a numerical service rated null and
\* nothing else: two records, each of its service's declared type.
C14_Witness ==
  /\ normalizer.pc = "full"
  /\ "ratings" \in DOMAIN normalizer.file
  /\ normalizer.file.ratings = <<<<"svcL", "5">>, <<"svcN", "null">>>>
  /\ "ratings_array" \in DOMAIN normalizer.out
  /\ Len(normalizer.out.ratings_array) = 2
  /\ normalizer.out.ratings_array[1].type = "LOCAL_RATING_LIKE"
  /\ normalizer.out.ratings_array[2].type = "LOCAL_RATING_NUMERICAL"

FileCategory == {"Image", "Video", "Audio", "Flash", "Unsupported"}

\* C15: getFileCategory gives every filetype one of the five categories, the
\* category of the list that names it and Unsupported when no list does; a
\* record of unknown MIME type is normalized to filetype APPLICATION_UNKNOWN,
\* category Unsupported and the raw MIME string as file_type_string, any
\* other record takes its string from the lookup table.
C15_CategoryTotal ==
  /\ normalizer.pc = "category" =>
       /\ normalizer.out \in FileCategory
       /\ normalizer.filetype \in ImageTypes => normalizer.out = "Image"
       /\ normalizer.filetype \in VideoTypes => normalizer.out = "Video"
       /\ normalizer.filetype \in AudioTypes => normalizer.out = "Audio"
       /\ normalizer.filetype \in FlashTypes => normalizer.out = "Flash"
       /\ normalizer.filetype \notin
            ImageTypes \cup VideoTypes \cup AudioTypes \cup FlashTypes
              => normalizer.out = "Unsupported"
  /\ normalizer.pc \in {"full", "basic"} =>
       /\ normalizer.out.file_category \in FileCategory
       /\ IF filetypeFromMime(normalizer.file.mime) = "APPLICATION_UNKNOWN"
          THEN /\ normalizer.out.file_type = "APPLICATION_UNKNOWN"
               /\ normalizer.out.file_category = "Unsupported"
               /\ normalizer.out.file_type_string = normalizer.file.mime
          ELSE /\ normalizer.out.file_type = filetypeFromMime(normalizer.file.mime)
               /\ normalizer.out.file_type_string
                    = mime_string_lookup(normalizer.out.file_type)

\* A record of MIME type application/x-totally-unknown, normalized.
C15_Witness ==
  /\ normalizer.pc = "basic"
  /\ normalizer.file.mime = "application/x-totally-unknown"
  /\ normalizer.out.file_type = "APPLICATION_UNKNOWN"
  /\ normalizer.out.file_category = "Unsupported"
  /\ normalizer.out.file_type_string = "application/x-totally-unknown"

\* The partition of ids against a cache, said without the loop: the cached
\* records and the uncached identifiers, each in the order of ids.
PartitionOf(call, cache) ==
  LET Cached(i) == i \in DOMAIN cache
      Uncached(i) == i \notin DOMAIN cache
      hits == SelectSeq(call.keys, Cached)
  IN  /\ call.toGet = SelectSeq(call.keys, Uncached)
      /\ call.existing = [k \in 1..Len(hits) |-> cache[hits[k]]]
      /\ Flat(call.req) = call.toGet

\* C16: a getFileMetadata call requests every identifier that is not cached
\* at the call, also one that another live call is already fetching; when
\* its response is joined the call succeeds with its cache hits and its own
\* response's records, and each returned record overwrites the cache entry
\* of its identifier, so the entry of a shared identifier is the record of
\* the response processed last; when the backend returned the same raw
\* record to both calls, both results and the cache hold the same record.
C16_OverlappingFetches ==
  /\ [](\A c, d \in CallIds :
          (/\ c # d /\ MetadataCall(c) /\ MetadataCall(d)
           /\ calls[c].pc = "done" /\ calls[d].pc = "done") =>
            \A f \in Range(Fetched(c)) \cap Range(Fetched(d)) :
              /\ processBasicFileFromAPI(f) \in
                   Range(calls[c].result) \cap Range(calls[d].result)
              /\ f.file_id \in DOMAIN allFiles =>
                   allFiles[f.file_id] = processBasicFileFromAPI(f))
  /\ [][\A c \in CallIds :
          /\ (CallStep(c) /\ calls'[c].kind = MetadataKind) =>
               \A d \in CallIds \ {c} :
                 \A i \in Range(calls'[c].keys) \cap Range(calls[d].toGet) :
                   (calls[d].pc \in {"created", "waiting"} /\ i \notin DOMAIN allFiles)
                     => \E k \in 1..Len(calls'[c].req) : i \in Range(calls'[c].req[k])
          /\ (MetadataCall(c) /\ JoinStep(c)) =>
               /\ Len(calls'[c].result)
                    = Len(calls[c].existing) + Len(flatMetadata(calls'[c].resp))
               /\ \A f \in Range(flatMetadata(calls'[c].resp)) :
                    /\ f.file_id \in DOMAIN allFiles'
                    /\ allFiles'[f.file_id] = processBasicFileFromAPI(f)
                    /\ processBasicFileFromAPI(f) \in Range(calls'[c].result)
               /\ \A d \in CallIds \ {c} : calls'[d] = calls[d]]_vars

\* Both calls have fetched file 1, one of them file 2 as well; the backend's
\* record of file 1 changed in between, and the cache holds file 2 from the
\* one call and file 1 as the other call, processed last, received it.
C16_Witness ==
  \E c, d \in CallIds :
    /\ c # d /\ MetadataCall(c) /\ MetadataCall(d)
    /\ calls[c].pc = "done" /\ calls[d].pc = "done"
    /\ calls[c].toGet = <<1, 2>> /\ calls[d].toGet = <<1>>
    /\ Len(calls[c].result) = 2 /\ Len(calls[d].result) = 1
    /\ DOMAIN allFiles = {1, 2}
    /\ allFiles[1] = calls[d].result[1]
    /\ allFiles[1] # calls[c].result[1]
    /\ allFiles[2] = calls[c].result[2]

\* C17: the call partitions ids against the cache as it is at the call: the
\* identifiers to request are the elements of ids not cached then, in the
\* order of ids, the others are taken from the cache, and the requests are
\* for the former only; afterwards, whatever happens to the cache, the
\* partition and the requests of the call stay as they are.
C17_PartitionAtCall ==
  [][\A c \in CallIds :
       /\ (CallStep(c) /\ calls'[c].kind = MetadataKind) =>
            /\ PartitionOf(calls'[c], allFiles)
            /\ \A k \in 1..Len(calls'[c].req) :
                 Range(calls'[c].req[k]) \cap DOMAIN allFiles = {}
       /\ (MetadataCall(c) /\ calls[c].pc # "idle" /\ calls'[c].pc # "idle") =>
            /\ calls'[c].keys = calls[c].keys
            /\ calls'[c].existing = calls[c].existing
            /\ calls'[c].toGet = calls[c].toGet
            /\ calls'[c].req = calls[c].req
       /\ (MetadataCall(c) /\ SubscribeStep(c) /\ calls[c].req # <<>>) =>
            Len(calls'[c].resp) = Len(calls[c].req)]_vars

\* A call has its request for an identifier in flight although the cache
\* holds that identifier by now: another call stored it after the partition.
C17_Witness ==
  \E c \in CallIds :
    /\ MetadataCall(c) /\ calls[c].pc = "waiting" /\ ~calls[c].cleared
    /\ Len(calls[c].keys) = 2 /\ calls[c].toGet = calls[c].keys
    /\ Range(calls[c].toGet) \subseteq DOMAIN allFiles

\* C18: clearFilesCache leaves the calls in flight as they are; a fetch that
\* was alive during a clear and is joined after it stores its records in the
\* cache, which so becomes non-empty without a call made after the clear,
\* and its result holds the cache hits taken at the call, before the clear.
C18_ClearKeepsInFlight ==
  [][/\ clearFilesCache =>
          \A c \in CallIds :
            calls[c].pc = "waiting" =>
              calls'[c] = [calls[c] EXCEPT !.cleared = TRUE]
     /\ \A c \in CallIds :
          (MetadataCall(c) /\ JoinStep(c) /\ calls[c].cleared) =>
            /\ \A f \in Range(flatMetadata(calls'[c].resp)) :
                 /\ f.file_id \in DOMAIN allFiles'
                 /\ allFiles'[f.file_id] = processBasicFileFromAPI(f)
            /\ flatMetadata(calls'[c].resp) # <<>> => getFilesCacheSize' > 0
            /\ \A k \in 1..Len(calls[c].existing) :
                 calls[c].existing[k] \in Range(calls'[c].result)
            /\ Len(calls'[c].result)
                 = Len(calls[c].existing) + Len(flatMetadata(calls'[c].resp))]_vars

\* A call alive during a clear has finished: the cache holds the record it
\* fetched and nothing else, and the result holds that record and the cache
\* hit taken before the clear, which the cache no longer has.
C18_Witness ==
  \E c \in CallIds :
    /\ MetadataCall(c) /\ calls[c].pc = "done" /\ calls[c].cleared
    /\ Len(calls[c].existing) = 1 /\ Len(Fetched(c)) = 1
    /\ Len(calls[c].result) = 2
    /\ calls[c].existing[1].file_id \notin DOMAIN allFiles
    /\ DOMAIN allFiles = {Fetched(c)[1].file_id}

\* C19: every cache entry is stored under the file_id of its record, and the
\* cache hits of a call are the records of the identifiers of ids that were
\* cached: the k-th hit has the file_id of the k-th cached identifier.
C19_KeyIsFileId ==
  /\ \A k \in DOMAIN allFiles : allFiles[k].file_id = k
  /\ \A c \in CallIds :
       MetadataCall(c) =>
         /\ Len(calls[c].existing) + Len(calls[c].toGet) = Len(calls[c].keys)
         /\ FileIdsOf(calls[c].existing) \cup Range(calls[c].toGet) = Range(calls[c].keys)
         /\ \A i, j \in 1..Len(calls[c].existing) :
              i < j => indexOf(calls[c].keys, calls[c].existing[i].file_id)
                         < indexOf(calls[c].keys, calls[c].existing[j].file_id)

\* A call for two cached identifiers, the larger one asked for first, was
\* served from the cache with the record of each.
C19_Witness ==
  \E c \in CallIds :
    /\ MetadataCall(c) /\ calls[c].pc = "done"
    /\ Len(calls[c].existing) = 2 /\ calls[c].toGet = <<>>
    /\ calls[c].existing[1].file_id > calls[c].existing[2].file_id
    /\ \A k \in 1..2 : /\ calls[c].keys[k] \in DOMAIN allFiles
                       /\ calls[c].existing[k] = allFiles[calls[c].keys[k]]

====
